---- MODULE Spec2Model ----
(***************************************************************************)
(* A model of src/bot.py (class JobBot): the applied-jobs ledger (a CSV    *)
(* file read back as plain text), the three source adapters, the           *)
(* aggregation step fetch_all_jobs, one search cycle run_job_search and    *)
(* the loop run_continuous.                                                 *)
(*                                                                         *)
(* Text is modelled as it is in the program: a string is a sequence of     *)
(* one-character strings, the ledger file is the sequence of characters    *)
(* csv.writer wrote, and membership is Python's substring test on the      *)
(* text read back.                                                          *)
(***************************************************************************)
EXTENDS Naturals, Sequences, FiniteSets

VARIABLES
    pc,             \* where run_continuous is
    file,           \* the characters of applied_jobs_log on disk
    srcIdx,         \* fetch_all_jobs: index into sources of the next adapter
    all_jobs,       \* fetch_all_jobs: all_jobs so far
    jobs,           \* run_job_search: jobs, the list fetch_all_jobs returned
    stats,          \* run_job_search: stats['total_applications']
    new_total,      \* run_job_search: new_total of the last summary
    shutdownLogged, \* "Job bot stopped by user" was logged
    cycle,          \* number of run_job_search calls so far
    budget,         \* number of upstream entries delivered so far
    emitted,        \* history: records returned by adapters, [cycle, source, url]
    entries,        \* history: rows mark_as_applied wrote, [url, title, company]
    returned,       \* history of this call: source -> what its adapter returned
    failed,         \* history of this call: sources whose adapter hit its except
    invoked,        \* history of this call: sources fetch_all_jobs has called
    applied,        \* history: apply_to_job calls, [cycle, url]
    mails,          \* history of this call: status/summary mails attempted
    payloads,       \* history of this call: source -> the entries it was sent
    accepted,       \* history of this call: source -> job_list when its loop ended
    entriesBefore,  \* history of this call: Len(entries) when the call began
    lastEvent       \* history: what the last step of run_continuous was

vars == <<pc, file, srcIdx, all_jobs, jobs, stats, new_total, shutdownLogged,
          cycle, budget, emitted, entries, returned, failed, invoked, applied,
          mails, payloads, accepted, entriesBefore, lastEvent>>

(***************************************************************************)
(* Bounds of the model.                                                     *)
(***************************************************************************)
MaxCycles == 2      \* run_job_search calls explored
MaxEntries == 2     \* upstream entries delivered over the whole run
MaxPayload == 2     \* entries in one upstream payload

(***************************************************************************)
(* Characters and strings.                                                  *)
(***************************************************************************)
COMMA == ","
QUOTE == "\""
LF == "\n"
CR == "\r"

\* str.lower() on the model's alphabet, whose only upper-case letter is K.
LowerChar(c) == IF c = "K" THEN "k" ELSE c

Lower(s) == [i \in 1..Len(s) |-> LowerChar(s[i])]

\* Python's `needle in hay` for two strings.
Contains(hay, needle) ==
    \E i \in 0..(Len(hay) - Len(needle)) :
        SubSeq(hay, i + 1, i + Len(needle)) = needle

IsSpace(c) == c \in {" ", LF, CR}

RECURSIVE LStrip(_)
LStrip(s) == IF s # <<>> /\ IsSpace(Head(s)) THEN LStrip(Tail(s)) ELSE s

RECURSIVE RStrip(_)
RStrip(s) ==
    IF s # <<>> /\ IsSpace(s[Len(s)]) THEN RStrip(SubSeq(s, 1, Len(s) - 1)) ELSE s

\* str.strip()
Strip(s) == RStrip(LStrip(s))

(***************************************************************************)
(* The ledger file: csv.writer on append, plain text on read.              *)
(***************************************************************************)
\* datetime.now().isoformat(): digits, '-', ':', 'T' and '.', none of which
\* occurs in the strings of the model; one character stands for it.
Timestamp == <<"t">>

RECURSIVE DoubleQuotes(_)
DoubleQuotes(s) ==
    IF s = <<>> THEN <<>>
    ELSE (IF Head(s) = QUOTE THEN <<QUOTE, QUOTE>> ELSE <<Head(s)>>)
         \o DoubleQuotes(Tail(s))

\* csv.writer, QUOTE_MINIMAL: a field holding the delimiter, the quote
\* character or a line-terminator character is quoted, its quotes doubled.
CsvField(s) ==
    IF \E i \in 1..Len(s) : s[i] \in {COMMA, QUOTE, CR, LF}
    THEN <<QUOTE>> \o DoubleQuotes(s) \o <<QUOTE>>
    ELSE s

\* writer.writerow([timestamp, url, title, company]); the file is opened
\* with newline='' so the writer's "\r\n" reaches the disk unchanged.
CsvRow(url, title, company) ==
    CsvField(Timestamp) \o <<COMMA>> \o CsvField(url) \o <<COMMA>>
    \o CsvField(title) \o <<COMMA>> \o CsvField(company) \o <<CR, LF>>

\* open(path, "r").read(): universal newlines turn "\r\n" and "\r" into "\n".
RECURSIVE ReadText(_)
ReadText(f) ==
    IF f = <<>> THEN <<>>
    ELSE IF Head(f) = CR
         THEN <<LF>> \o ReadText(IF Len(f) > 1 /\ f[2] = LF
                                 THEN SubSeq(f, 3, Len(f)) ELSE Tail(f))
         ELSE <<Head(f)>> \o ReadText(Tail(f))

\* len(file.readlines()): one line per "\n", plus an unterminated last line.
CountLines(text) ==
    Cardinality({i \in 1..Len(text) : text[i] = LF})
    + (IF text # <<>> /\ text[Len(text)] # LF THEN 1 ELSE 0)

\* What the ledger path stands for when there is no file behind it.
NoFile == <<"ENOENT">>

\* open() raises FileNotFoundError when the file is missing: False.
job_already_applied(f, url) ==
    IF f = NoFile THEN FALSE ELSE Contains(ReadText(f), url)

\* A variant of mark_as_applied that opens the file with mode "w": the row
\* written replaces what the file held.
mark_as_applied_mode_w(f, job, ok) ==
    IF ok THEN CsvRow(job.url, job.title, job.company) ELSE f

\* A variant of mark_as_applied in which a failed write leaves the file
\* truncated.
mark_as_applied_truncates(f, job, ok) ==
    IF ok THEN f \o CsvRow(job.url, job.title, job.company) ELSE <<>>

\* ok is whether the open-and-write succeeded; a failure is logged and
\* swallowed, and the file is as it was.  Mode "a" creates a missing file.
mark_as_applied(f, job, ok) ==
    IF ok
    THEN (IF f = NoFile THEN <<>> ELSE f)
         \o CsvRow(job.url, job.title, job.company)
    ELSE f

\* A missing file counts as no application.
get_stats(f) == IF f = NoFile THEN 0 ELSE CountLines(ReadText(f))

(***************************************************************************)
(* Keyword filter and contact-address extraction.                          *)
(***************************************************************************)
\* config['job_keywords']: one keyword, written in upper case like "IT".
job_keywords == {<<"K">>}

\* None and "" are both falsy: a record's missing text is the empty string.
matches_keywords(text) ==
    /\ text # <<>>
    /\ \E keyword \in job_keywords : Contains(Lower(text), Lower(keyword))

Alnum == {"a", "b", "c", "d", "e", "k", "K", "x", "w", "t"}
LocalClass == Alnum \cup {"_", ".", "+", "-"}      \* [a-zA-Z0-9_.+-]
DomainClass == Alnum \cup {"-"}                    \* [a-zA-Z0-9-]
TailClass == Alnum \cup {"-", "."}                 \* [a-zA-Z0-9-.]

\* The first index >= i of s whose character is outside class, or Len(s)+1.
RunEnd(s, i, class) ==
    CHOOSE n \in i..(Len(s) + 1) :
        /\ \A m \in i..(n - 1) : s[m] \in class
        /\ (n = Len(s) + 1 \/ s[n] \notin class)

\* Where the match of the pattern that starts at i ends, 0 when there is
\* none.  Each class excludes the character that must follow its run, so the
\* greedy runs are the only candidates.
EmailEnd(s, i) ==
    LET at == RunEnd(s, i, LocalClass) IN
    IF ~(at > i /\ at <= Len(s) /\ s[at] = "@") THEN 0
    ELSE LET dot == RunEnd(s, at + 1, DomainClass) IN
         IF ~(dot > at + 1 /\ dot <= Len(s) /\ s[dot] = ".") THEN 0
         ELSE LET end == RunEnd(s, dot + 1, TailClass) IN
              IF end > dot + 1 THEN end - 1 ELSE 0

NoEmail == <<>>

\* re.search: the leftmost match; None is modelled as the empty string
\* (a match is never empty, and callers only test truthiness).
extract_email(text) ==
    LET starts == {i \in 1..Len(text) : EmailEnd(text, i) > 0} IN
    IF starts = {} THEN NoEmail
    ELSE LET i == CHOOSE m \in starts : \A n \in starts : m <= n
         IN SubSeq(text, i, EmailEnd(text, i))

(***************************************************************************)
(* Upstream payloads.                                                      *)
(***************************************************************************)
Sources == <<"RemoteOK", "WeWorkRemotely", "Remotive">>

Entry(title, desc, company, url) ==
    [shape |-> "ok", title |-> title, desc |-> desc, company |-> company,
     url |-> url]

\* An element job.get(...) or the string operations on its fields raise on
\* (an element that is not an object, a title that is a number, ...).
BadEntry == [shape |-> "bad", title |-> <<>>, desc |-> <<>>, company |-> <<>>,
             url |-> <<>>]

\* The first element of the RemoteOK array, which the adapter skips.
Metadata == [shape |-> "meta", title |-> <<>>, desc |-> <<>>,
             company |-> <<>>, url |-> <<>>]

\* The elements an upstream JSON payload is made of: a keyword in the title or
\* only in the description, no keyword, an address in the description, a URL
\* inside another URL, a URL with a quote (and a title with a line break, and
\* an address), no URL.
JsonEntries ==
    { Entry(<<"K">>, <<>>, <<"c">>, <<"a", "b">>),
      Entry(<<"x">>, <<"k", "e", "@", "e", ".", "e">>, <<"c">>, <<"a">>),
      Entry(<<"K", LF, "x">>, <<"e", "@", "e", ".", "e">>, <<"c">>,
            <<"a", QUOTE, "b">>),
      Entry(<<"x">>, <<"x">>, <<"c">>, <<"d">>),
      Entry(<<"K">>, <<>>, <<"c">>, <<>>),
      BadEntry }

\* An <li> of the WeWorkRemotely page: link is whether it has an <a href>,
\* titled whether it has a span.title.
Item(link, href, titled, title, company) ==
    [link |-> link, href |-> href, titled |-> titled, title |-> title,
     company |-> company]

HtmlItems ==
    { Item(TRUE, <<"a">>, TRUE, <<"K", LF>>, <<"c">>),
      Item(TRUE, <<"a">>, TRUE, <<"x">>, <<"c">>),
      Item(TRUE, <<"b">>, FALSE, <<>>, <<"c">>),
      Item(FALSE, <<>>, TRUE, <<"K">>, <<"c">>) }

\* Sequences over S of length at most n.
SeqUpTo(S, n) == UNION {[1..m -> S] : m \in 0..n}

\* "https://weworkremotely.com", one character standing for the site.
WwrBase == <<"w">>

(***************************************************************************)
(* The adapters.  Each returns [file, jobs, rows, built, failed]: the       *)
(* ledger file after the call, the list returned, the rows written, the    *)
(* job_list the loop had built when it ended and whether the adapter ended *)
(* in its except clause.  failAt is the set of positions in the payload at *)
(* which the ledger write fails.                                           *)
(***************************************************************************)
\* A variant of JobData that reads the URL under a key the payload does not
\* have and so stores the default, the empty string.
JobDataWrongKey(title, company, url, email, source) ==
    [title |-> title, company |-> company, url |-> <<>>, email |-> email,
     source |-> source]

JobData(title, company, url, email, source) ==
    [title |-> title, company |-> company, url |-> url, email |-> email,
     source |-> source]

Row(job) == [url |-> job.url, title |-> job.title, company |-> job.company]

\* The for loop of fetch_remoteok_jobs and fetch_remotive_jobs from element
\* i on; raised is whether an element raised, which ends the loop.
RECURSIVE JsonLoop(_, _, _, _, _, _, _)
JsonLoop(source, cands, i, f, job_list, rows, failAt) ==
    IF i > Len(cands)
    THEN [file |-> f, jobs |-> job_list, rows |-> rows, raised |-> FALSE]
    ELSE LET job == cands[i] IN
      IF job.shape # "ok"
      THEN [file |-> f, jobs |-> job_list, rows |-> rows, raised |-> TRUE]
      ELSE IF /\ matches_keywords(job.title) \/ matches_keywords(job.desc)
              /\ job.url # <<>>
              /\ ~job_already_applied(f, job.url)
           THEN LET job_data == JobData(job.title, job.company, job.url,
                                        extract_email(job.desc), source)
                    ok == i \notin failAt
                IN JsonLoop(source, cands, i + 1,
                            mark_as_applied(f, job_data, ok),
                            Append(job_list, job_data),
                            IF ok THEN Append(rows, Row(job_data)) ELSE rows,
                            failAt)
           ELSE JsonLoop(source, cands, i + 1, f, job_list, rows, failAt)

\* A variant of AdapterResult in which the except clause hands back the
\* job_list built so far.
AdapterResultKeepsPartial(loop) ==
    [file |-> loop.file,
     jobs |-> loop.jobs,
     rows |-> loop.rows,
     built |-> loop.jobs,
     failed |-> loop.raised]

\* The except clauses: log and return [].
AdapterResult(loop) ==
    [file |-> loop.file,
     jobs |-> IF loop.raised THEN <<>> ELSE loop.jobs,
     rows |-> loop.rows,
     built |-> loop.jobs,
     failed |-> loop.raised]

\* The request or the parsing of the body raised: nothing was looked at.
FetchFailed(f) ==
    [file |-> f, jobs |-> <<>>, rows |-> <<>>, built |-> <<>>, failed |-> TRUE]

\* response.body is the JSON array, whose first element is skipped.
fetch_remoteok_jobs(response, f, failAt) ==
    IF ~response.ok THEN FetchFailed(f)
    ELSE AdapterResult(JsonLoop("RemoteOK",
                                SubSeq(response.body, 2, Len(response.body)),
                                1, f, <<>>, <<>>, failAt))

\* response.body is data["jobs"].
fetch_remotive_jobs(response, f, failAt) ==
    IF ~response.ok THEN FetchFailed(f)
    ELSE AdapterResult(JsonLoop("Remotive", response.body, 1, f, <<>>, <<>>,
                                failAt))

RECURSIVE WwrLoop(_, _, _, _, _, _)
WwrLoop(items, i, f, job_list, rows, failAt) ==
    IF i > Len(items)
    THEN [file |-> f, jobs |-> job_list, rows |-> rows, raised |-> FALSE]
    ELSE LET li == items[i]
             link == WwrBase \o li.href
         IN
      IF /\ li.link
         /\ li.titled /\ matches_keywords(li.title)
         /\ ~job_already_applied(f, link)
      THEN LET job_data == JobData(Strip(li.title), Strip(li.company), link,
                                   NoEmail, "WeWorkRemotely")
               ok == i \notin failAt
           IN WwrLoop(items, i + 1, mark_as_applied(f, job_data, ok),
                      Append(job_list, job_data),
                      IF ok THEN Append(rows, Row(job_data)) ELSE rows, failAt)
      ELSE WwrLoop(items, i + 1, f, job_list, rows, failAt)

\* response.body is the list of <li> of the jobs sections, in page order.
fetch_wwr_jobs(response, f, failAt) ==
    IF ~response.ok THEN FetchFailed(f)
    ELSE AdapterResult(WwrLoop(response.body, 1, f, <<>>, <<>>, failAt))

\* source_func() for the adapter at index i of sources.
CallSource(i, response, f, failAt) ==
    IF i = 1 THEN fetch_remoteok_jobs(response, f, failAt)
    ELSE IF i = 2 THEN fetch_wwr_jobs(response, f, failAt)
    ELSE fetch_remotive_jobs(response, f, failAt)

\* What can come back from the upstream of source i when at most n more
\* entries may be delivered: a failure (timeout, HTTP error, body that does
\* not parse) or a payload.
Responses(i, n) ==
    {[ok |-> FALSE, body |-> <<>>]} \cup
    {[ok |-> TRUE,
      body |-> IF i = 1 THEN <<Metadata>> \o b ELSE b] :
        b \in SeqUpTo(IF i = 2 THEN HtmlItems ELSE JsonEntries, n)}

\* The number of listings in a response.
Listings(i, response) ==
    IF ~response.ok THEN 0
    ELSE IF i = 1 THEN Len(response.body) - 1 ELSE Len(response.body)

\* The payload the loop of adapter i runs over.
Candidates(i, response) ==
    IF i = 1 THEN SubSeq(response.body, 2, Len(response.body))
    ELSE response.body

(***************************************************************************)
(* fetch_all_jobs: the de-duplication of all_jobs by URL.                  *)
(***************************************************************************)
RECURSIVE UniqueLoop(_, _, _)
UniqueLoop(js, unique_jobs, seen_urls) ==
    IF js = <<>> THEN unique_jobs
    ELSE IF Head(js).url \notin seen_urls
         THEN UniqueLoop(Tail(js), Append(unique_jobs, Head(js)),
                         seen_urls \cup {Head(js).url})
         ELSE UniqueLoop(Tail(js), unique_jobs, seen_urls)

\* A variant of unique_jobs_of that keeps the last record of each URL.
RECURSIVE unique_jobs_keep_last(_)
unique_jobs_keep_last(js) ==
    IF js = <<>> THEN <<>>
    ELSE IF \E j \in 2..Len(js) : js[j].url = Head(js).url
         THEN unique_jobs_keep_last(Tail(js))
         ELSE <<Head(js)>> \o unique_jobs_keep_last(Tail(js))

unique_jobs_of(js) == UniqueLoop(js, <<>>, {})

(***************************************************************************)
(* run_job_search and run_continuous.                                      *)
(***************************************************************************)
NSources == Len(Sources)

\* The longest payload the bounds still allow.
Room == IF MaxEntries - budget < MaxPayload THEN MaxEntries - budget
        ELSE MaxPayload

NoneReturned == [i \in 1..NSources |-> <<>>]

Emitted(c, js) ==
    [i \in 1..Len(js) |-> [cycle |-> c, source |-> js[i].source,
                            url |-> js[i].url]]

\* The jobs of the summary in the order the two nested loops visit them:
\* jobs_by_source keeps the sources in order of first appearance, which in
\* a list built adapter by adapter is the order of Sources.
RECURSIVE BySource(_, _)
BySource(js, i) ==
    IF i > NSources THEN <<>>
    ELSE SelectSeq(js, LAMBDA j : j.source = Sources[i]) \o BySource(js, i + 1)

\* The jobs apply_to_job is called for, in order.
WithEmail(js) == SelectSeq(BySource(js, 1), LAMBDA j : j.email # NoEmail)

Applied(c, js) == [i \in 1..Len(js) |-> [cycle |-> c, url |-> js[i].url]]

\* An exception leaves run_job_search: its local variables are gone, and
\* with them the history of the call.
Unwound ==
    /\ srcIdx' = 1
    /\ all_jobs' = <<>>
    /\ jobs' = <<>>
    /\ stats' = 0
    /\ new_total' = 0
    /\ returned' = NoneReturned
    /\ failed' = {}
    /\ invoked' = {}
    /\ mails' = <<>>
    /\ payloads' = NoneReturned
    /\ accepted' = NoneReturned
    /\ entriesBefore' = 0

\* JobBot(config): the constructor touches the ledger file, which leaves an
\* existing file as it is; run_continuous has not entered its loop.
Init ==
    /\ pc = "idle"
    /\ file = <<>>
    /\ srcIdx = 1
    /\ all_jobs = <<>>
    /\ jobs = <<>>
    /\ stats = 0
    /\ new_total = 0
    /\ shutdownLogged = FALSE
    /\ cycle = 0
    /\ budget = 0
    /\ emitted = <<>>
    /\ entries = <<>>
    /\ returned = NoneReturned
    /\ failed = {}
    /\ invoked = {}
    /\ applied = <<>>
    /\ mails = <<>>
    /\ payloads = NoneReturned
    /\ accepted = NoneReturned
    /\ entriesBefore = 0
    /\ lastEvent = "init"

\* The loop calls run_job_search, at first or after a pause has elapsed:
\* get_stats, then fetch_all_jobs starts with an empty all_jobs.
StartCycle ==
    /\ pc \in {"idle", "sleeping", "cooldown"}
    /\ cycle < MaxCycles
    /\ pc' = "fetching"
    /\ cycle' = cycle + 1
    /\ stats' = get_stats(file)
    /\ srcIdx' = 1
    /\ all_jobs' = <<>>
    /\ jobs' = <<>>
    /\ returned' = NoneReturned
    /\ failed' = {}
    /\ invoked' = {}
    /\ mails' = <<>>
    /\ payloads' = NoneReturned
    /\ accepted' = NoneReturned
    /\ entriesBefore' = Len(entries)
    /\ lastEvent' = IF pc = "cooldown" THEN "retry"
                    ELSE IF pc = "sleeping" THEN "wake" ELSE "start"
    /\ new_total' = 0
    /\ UNCHANGED <<file, shutdownLogged, budget, emitted, entries, applied>>

\* One iteration of the loop over sources in fetch_all_jobs; after the last
\* one the duplicates are removed and the list returned to run_job_search.
FetchSource ==
    /\ pc = "fetching"
    /\ \E response \in Responses(srcIdx, Room) :
       \E failAt \in SUBSET (1..Listings(srcIdx, response)) :
       \E r \in {CallSource(srcIdx, response, file, failAt)} :
         LET all == all_jobs \o r.jobs
         IN /\ budget' = budget + Listings(srcIdx, response)
            /\ file' = r.file
            /\ all_jobs' = all
            /\ entries' = entries \o r.rows
            /\ emitted' = emitted \o Emitted(cycle, r.jobs)
            /\ returned' = [returned EXCEPT ![srcIdx] = r.jobs]
            /\ accepted' = [accepted EXCEPT ![srcIdx] = r.built]
            /\ payloads' = [payloads EXCEPT
                               ![srcIdx] = Candidates(srcIdx, response)]
            /\ failed' = IF r.failed THEN failed \cup {srcIdx} ELSE failed
            /\ invoked' = invoked \cup {srcIdx}
            /\ IF srcIdx < NSources
               THEN /\ srcIdx' = srcIdx + 1
                    /\ pc' = "fetching"
                    /\ jobs' = jobs
                    /\ lastEvent' = "fetch"
               ELSE /\ srcIdx' = srcIdx
                    /\ pc' = "notifying"
                    /\ jobs' = unique_jobs_of(all)
                    /\ lastEvent' = "fetched"
    /\ UNCHANGED <<stats, new_total, shutdownLogged, cycle, applied, mails,
                   entriesBefore>>

\* fetch_all_jobs returned long ago: what its call held is gone.
FetchForgotten ==
    /\ srcIdx' = 1
    /\ all_jobs' = <<>>
    /\ returned' = NoneReturned
    /\ failed' = {}
    /\ invoked' = {}
    /\ payloads' = NoneReturned
    /\ accepted' = NoneReturned

\* A variant of Notify for a loop that forgets its time.sleep: the next
\* call of run_job_search follows the summary at once.
NotifySkipsSleep ==
    /\ pc = "notifying"
    /\ \E mailOk \in BOOLEAN :
         IF jobs = <<>>
         THEN /\ mails' = Append(mails, [kind |-> "status", ok |-> mailOk])
              /\ UNCHANGED <<applied, new_total>>
         ELSE \E sent \in SUBSET (1..Len(WithEmail(jobs))) :
                /\ applied' = applied \o Applied(cycle, WithEmail(jobs))
                /\ new_total' = stats + Cardinality(sent)
                /\ mails' = Append(mails, [kind |-> "summary", ok |-> mailOk])
    /\ pc' = "idle"
    /\ lastEvent' = "notified"
    /\ FetchForgotten
    /\ UNCHANGED <<file, jobs, stats, shutdownLogged, cycle, budget, emitted,
                   entries, entriesBefore>>

\* A variant of Notify for a send_email without its try: a mail that cannot
\* be sent raises, the cycle fails and the loop goes to its cooldown.
NotifyMailRaises ==
    /\ pc = "notifying"
    /\ \E mailOk \in BOOLEAN :
         IF jobs = <<>>
         THEN /\ mails' = Append(mails, [kind |-> "status", ok |-> mailOk])
              /\ pc' = IF mailOk THEN "sleeping" ELSE "cooldown"
              /\ UNCHANGED <<applied, new_total>>
         ELSE \E sent \in SUBSET (1..Len(WithEmail(jobs))) :
                /\ applied' = applied \o Applied(cycle, WithEmail(jobs))
                /\ new_total' = stats + Cardinality(sent)
                /\ mails' = Append(mails, [kind |-> "summary", ok |-> mailOk])
                /\ pc' = IF mailOk /\ Cardinality(sent) = Len(WithEmail(jobs))
                         THEN "sleeping" ELSE "cooldown"
    /\ lastEvent' = "notified"
    /\ FetchForgotten
    /\ UNCHANGED <<file, jobs, stats, shutdownLogged, cycle, budget, emitted,
                   entries, entriesBefore>>

\* The rest of run_job_search.  With no jobs the status mail is sent; else
\* apply_to_job is called for every job with an address, sent being the
\* jobs whose mail went out, and the summary mail follows.  send_email
\* catches its own failures (mailOk).  The loop then goes to its sleep,
\* with only the summary's figures kept.
Notify ==
    /\ pc = "notifying"
    /\ \E mailOk \in BOOLEAN :
         IF jobs = <<>>
         THEN /\ mails' = Append(mails, [kind |-> "status", ok |-> mailOk])
              /\ UNCHANGED <<applied, new_total>>
         ELSE \E sent \in SUBSET (1..Len(WithEmail(jobs))) :
                /\ applied' = applied \o Applied(cycle, WithEmail(jobs))
                /\ new_total' = stats + Cardinality(sent)
                /\ mails' = Append(mails, [kind |-> "summary", ok |-> mailOk])
    /\ pc' = "sleeping"
    /\ lastEvent' = "notified"
    /\ FetchForgotten
    /\ UNCHANGED <<file, jobs, stats, shutdownLogged, cycle, budget, emitted,
                   entries, entriesBefore>>

\* A variant of CycleFails for a loop without its except Exception clause:
\* the exception leaves run_continuous.
CycleFailsExits ==
    /\ pc = "notifying"
    /\ pc' = "crashed"
    /\ lastEvent' = "cycle_failed"
    /\ Unwound
    /\ UNCHANGED <<file, shutdownLogged, cycle, budget, emitted, entries,
                   applied>>

\* An Exception leaves run_job_search: logged, then time.sleep(300).  Inside
\* the adapters, fetch_all_jobs' loop, send_email and apply_to_job every
\* Exception is caught, so it can only come from the code between them,
\* after the last adapter has returned.
CycleFails ==
    /\ pc = "notifying"
    /\ pc' = "cooldown"
    /\ lastEvent' = "cycle_failed"
    /\ Unwound
    /\ UNCHANGED <<file, shutdownLogged, cycle, budget, emitted, entries,
                   applied>>

\* A variant of Interrupt in which a signal that arrives during the cycle is
\* held back until the sleep.
InterruptDeferred ==
    /\ pc \in {"fetching", "notifying", "sleeping"}
    /\ pc' = IF pc = "sleeping" THEN "stopped" ELSE pc
    /\ shutdownLogged' = (pc = "sleeping")
    /\ lastEvent' = IF pc = "sleeping" THEN "interrupt_sleep"
                    ELSE "interrupt_cycle"
    /\ UNCHANGED <<file, srcIdx, all_jobs, jobs, stats, new_total, cycle,
                   budget, emitted, entries, returned, failed, invoked,
                   applied, mails, payloads, accepted, entriesBefore>>

\* KeyboardInterrupt inside the try of run_continuous, between two steps of
\* the cycle or in the sleep after it: no except Exception clause catches
\* it, the except KeyboardInterrupt of the loop logs and breaks.
Interrupt ==
    /\ pc \in {"fetching", "notifying", "sleeping"}
    /\ pc' = "stopped"
    /\ shutdownLogged' = TRUE
    /\ lastEvent' = IF pc = "sleeping" THEN "interrupt_sleep"
                    ELSE "interrupt_cycle"
    /\ Unwound
    /\ UNCHANGED <<file, cycle, budget, emitted, entries, applied>>

\* KeyboardInterrupt while an adapter is in its loop: response holds the
\* elements the loop has gone through (at least one).  The rows written so far
\* are on disk, job_list is lost.
InterruptAdapter ==
    /\ pc = "fetching"
    /\ \E response \in Responses(srcIdx, Room) :
       \E failAt \in SUBSET (1..Listings(srcIdx, response)) :
       \E r \in {CallSource(srcIdx, response, file, failAt)} :
            /\ Listings(srcIdx, response) >= 1
            /\ budget' = budget + Listings(srcIdx, response)
            /\ file' = r.file
            /\ entries' = entries \o r.rows
    /\ pc' = "stopped"
    /\ shutdownLogged' = TRUE
    /\ lastEvent' = "interrupt_cycle"
    /\ Unwound
    /\ UNCHANGED <<cycle, emitted, applied>>

\* KeyboardInterrupt while the jobs are being applied to, after k calls of
\* apply_to_job: the summary mail is not sent.
InterruptNotify ==
    /\ pc = "notifying"
    /\ \E k \in 1..Len(WithEmail(jobs)) :
         applied' = applied \o Applied(cycle, SubSeq(WithEmail(jobs), 1, k))
    /\ pc' = "stopped"
    /\ shutdownLogged' = TRUE
    /\ lastEvent' = "interrupt_cycle"
    /\ Unwound
    /\ UNCHANGED <<file, cycle, budget, emitted, entries>>

\* KeyboardInterrupt in time.sleep(300): the sleep is inside the except
\* Exception clause, which the except KeyboardInterrupt clause of the same
\* try does not cover; the exception leaves run_continuous.
InterruptCooldown ==
    /\ pc = "cooldown"
    /\ pc' = "crashed"
    /\ lastEvent' = "interrupt_cooldown"
    /\ UNCHANGED <<file, srcIdx, all_jobs, jobs, stats, new_total,
                   shutdownLogged, cycle, budget, emitted, entries, returned,
                   failed, invoked, applied, mails, payloads, accepted,
                   entriesBefore>>

\* The process is started again: main() builds a new JobBot over the same
\* ledger file, which the constructor touches.
Restart ==
    /\ pc \in {"stopped", "crashed"}
    /\ cycle < MaxCycles
    /\ pc' = "idle"
    /\ shutdownLogged' = FALSE
    /\ srcIdx' = 1
    /\ all_jobs' = <<>>
    /\ jobs' = <<>>
    /\ stats' = 0
    /\ new_total' = 0
    /\ returned' = NoneReturned
    /\ failed' = {}
    /\ invoked' = {}
    /\ mails' = <<>>
    /\ payloads' = NoneReturned
    /\ accepted' = NoneReturned
    /\ entriesBefore' = 0
    /\ lastEvent' = "restart"
    /\ file' = (IF file = NoFile THEN <<>> ELSE file)
    /\ UNCHANGED <<cycle, budget, emitted, entries, applied>>

Next ==
    \/ StartCycle
    \/ FetchSource
    \/ Notify
    \/ CycleFails
    \/ Interrupt
    \/ InterruptAdapter
    \/ InterruptNotify
    \/ InterruptCooldown
    \/ Restart

Spec == Init /\ [][Next]_vars

\* Somebody removes the ledger file between two calls of the bot; the rows
\* it held are gone with it.
LedgerRemoved ==
    /\ pc \in {"idle", "fetching", "sleeping", "cooldown"}
    /\ file # NoFile
    /\ file' = NoFile
    /\ entries' = <<>>
    /\ entriesBefore' = 0
    /\ UNCHANGED <<pc, srcIdx, all_jobs, jobs, stats, new_total,
                   shutdownLogged, cycle, budget, emitted, returned, failed,
                   invoked, applied, mails, payloads, accepted, lastEvent>>

NextRemoved == Next \/ LedgerRemoved

\* The bot with a ledger file that can disappear under it.
SpecRemoved == Init /\ [][NextRemoved]_vars

(***************************************************************************)
(* The claims.                                                             *)
(***************************************************************************)
Urls(js) == {js[i].url : i \in 1..Len(js)}

SrcIndex(name) == CHOOSE i \in 1..NSources : Sources[i] = name

\* The ledger entries there were when the call in progress began.
UrlsBefore == {entries[i].url : i \in 1..entriesBefore}

\* How many elements of the list of records or rows js have URL u.
Count(js, u) == Cardinality({i \in 1..Len(js) : js[i].url = u})

\* Every record an adapter returned has a row of its own in the ledger.
EveryWriteSucceeded ==
    \A i \in 1..Len(emitted) :
        Count(emitted, emitted[i].url) <= Count(entries, emitted[i].url)

\* C1: over any sequence of cycles no URL is returned as a new record by the
\* adapters more than once.  Stated for the runs in which no ledger write
\* failed: after a failed write the spec itself allows a re-offer.
C1_NoUrlEmittedTwice ==
    EveryWriteSucceeded =>
        \A i, j \in 1..Len(emitted) :
            i # j => emitted[i].url # emitted[j].url

\* The URL, well-formedness and keyword match of entry c of source s.
CandUrl(s, c) == IF s = 2 THEN WwrBase \o c.href ELSE c.url

CandWellFormed(s, c) == IF s = 2 THEN c.link ELSE c.shape = "ok"

CandMatches(s, c) ==
    IF s = 2 THEN c.titled /\ matches_keywords(c.title)
    ELSE matches_keywords(c.title) \/ matches_keywords(c.desc)

\* C2: when fetch_all_jobs has returned, a listing of this cycle's payloads
\* is in the output if and only if its URL was not in the ledger when the
\* cycle began and its title or description matches a keyword.  Stated for
\* the well-formed listings with a URL in the payloads of the adapters that
\* did not fail.
C2_IncludedIffNewAndMatching ==
    pc = "notifying" =>
        \A s \in (1..NSources) \ failed : \A i \in 1..Len(payloads[s]) :
            LET c == payloads[s][i] IN
            (CandWellFormed(s, c) /\ CandUrl(s, c) # <<>>) =>
                (CandUrl(s, c) \in Urls(jobs)
                    <=> (CandUrl(s, c) \notin UrlsBefore /\ CandMatches(s, c)))

\* The URLs the upstreams of the model can send.
ProbeUrls ==
    {e.url : e \in JsonEntries} \cup {WwrBase \o e.href : e \in HtmlItems}

\* C3: job_already_applied(url) is true if and only if some appended entry
\* has exactly this URL.
C3_ContainsIffAppended ==
    \A u \in ProbeUrls \ {<<>>} :
        job_already_applied(file, u)
            <=> \E j \in 1..Len(entries) : entries[j].url = u

\* The first record with URL u in the list js.
FirstWithUrl(js, u) ==
    js[CHOOSE i \in 1..Len(js) :
          /\ js[i].url = u
          /\ \A j \in 1..(i - 1) : js[j].url # u]

\* C4: when fetch_all_jobs has returned, its output holds no two records with
\* the same URL, keeps the order of the adapters, and for every URL that
\* adapters returned holds exactly the record of the first adapter that
\* returned it.
C4_FirstAdapterWins ==
    pc = "notifying" =>
        /\ \A i, j \in 1..Len(jobs) : i # j => jobs[i].url # jobs[j].url
        /\ \A i, j \in 1..Len(jobs) :
              i < j => SrcIndex(jobs[i].source) <= SrcIndex(jobs[j].source)
        /\ \A s \in 1..NSources : \A u \in Urls(returned[s]) :
              LET first == CHOOSE t \in 1..NSources :
                              /\ u \in Urls(returned[t])
                              /\ \A t2 \in 1..(t - 1) : u \notin Urls(returned[t2])
              IN \E i \in 1..Len(jobs) :
                    /\ jobs[i] = FirstWithUrl(returned[first], u)
                    /\ jobs[i].source = Sources[first]

\* Two adapters returned the same URL in one cycle.
C4_Witness ==
    /\ pc = "notifying"
    /\ \E s, t \in 1..NSources :
          s < t /\ Urls(returned[s]) \cap Urls(returned[t]) # {}

\* What the adapters outside the set skip returned, in adapter order.
RECURSIVE ReturnedExcept(_, _)
ReturnedExcept(skip, i) ==
    IF i > NSources THEN <<>>
    ELSE (IF i \in skip THEN <<>> ELSE returned[i]) \o ReturnedExcept(skip, i + 1)

\* C5: an adapter whose fetch fails contributes no record, the adapters after
\* it are still called, and fetch_all_jobs returns normally with exactly the
\* records of the adapters that did not fail.
C5_FailureIsolated ==
    /\ pc = "fetching" => invoked = 1..(srcIdx - 1)
    /\ pc = "notifying" =>
          /\ invoked = 1..NSources
          /\ jobs = unique_jobs_of(ReturnedExcept(failed, 1))
    /\ \A s \in failed :
          /\ returned[s] = <<>>
          /\ \A i \in 1..Len(all_jobs) : all_jobs[i].source # Sources[s]
          /\ pc \in {"fetching", "notifying", "sleeping"}

\* An adapter failed, another did not, and fetch_all_jobs returned records.
C5_Witness ==
    /\ pc = "notifying"
    /\ failed # {}
    /\ jobs # <<>>

\* C6: an entry that fails to parse does not make its adapter drop the
\* records it built from the well-formed entries of the same payload.
C6_SiblingsKept ==
    \A s \in invoked : returned[s] = accepted[s]

\* C7: after N appends and a reopening of the ledger, every appended URL is
\* reported as applied and get_stats counts N entries.
C7_RoundTrip ==
    lastEvent = "restart" =>
        /\ get_stats(file) = Len(entries)
        /\ \A j \in 1..Len(entries) : job_already_applied(file, entries[j].url)

Terminal == {"stopped", "crashed"}

InterruptEvents == {"interrupt_cycle", "interrupt_sleep", "interrupt_cooldown"}

\* C8: a cycle that fails is followed by the cooldown pause, the pause by a
\* new cycle unless a signal arrives, and the loop ends only by a signal.
C8_FailureNeverEndsLoop ==
    [][ /\ lastEvent' = "cycle_failed" => pc' = "cooldown"
        /\ pc = "cooldown" =>
              \/ pc' = "fetching" /\ cycle' = cycle + 1
              \/ lastEvent' \in InterruptEvents
        /\ (pc \notin Terminal /\ pc' \in Terminal) =>
              lastEvent' \in InterruptEvents ]_vars

\* A new cycle has begun after the cooldown that followed a failed one.
C8_Witness ==
    /\ pc = "fetching"
    /\ lastEvent = "retry"

\* C9 as claimed: a signal never cuts a cycle short, so the loop is only ever
\* stopped out of its sleep.
C9_SignalOnlyAtSleep ==
    pc = "stopped" => lastEvent = "interrupt_sleep"

\* C9 as amended: a signal that arrives during a cycle aborts it at once.  The
\* loop stops with the shutdown message, no record is returned, no summary
\* or status mail is sent, and nothing is fetched until the bot is started
\* again.
C9_SignalAbortsCycle ==
    [][ /\ (pc \in {"fetching", "notifying"} /\ lastEvent' = "interrupt_cycle") =>
              /\ pc' = "stopped"
              /\ shutdownLogged'
              /\ emitted' = emitted
              /\ mails' = <<>>
        /\ pc = "stopped" => pc' \in {"stopped", "idle"} ]_vars

\* A cycle was cut short by a signal.
C9_Witness ==
    /\ pc = "stopped"
    /\ lastEvent = "interrupt_cycle"
    /\ shutdownLogged

\* C10: a signal during either pause ends the loop cleanly, with the shutdown
\* message logged and no exception leaving run_continuous.
C10_PauseInterruptIsClean ==
    lastEvent \in {"interrupt_sleep", "interrupt_cooldown"} =>
        (pc = "stopped" /\ shutdownLogged)

\* C11: the loop goes idle, fetching, notifying, sleeping and back to
\* fetching.  A cycle begins only from idle or from a pause that has elapsed,
\* calls every adapter exactly once, notifies only after the last adapter has
\* returned, and sleeps only after the one status or summary mail.
C11_RunnerOrder ==
    [][ /\ (pc # "fetching" /\ pc' = "fetching") =>
              /\ pc \in {"idle", "sleeping", "cooldown"}
              /\ cycle' = cycle + 1
              /\ invoked' = {}
        /\ (pc = "fetching" /\ pc' \in {"fetching", "notifying"}) =>
              /\ cycle' = cycle
              /\ srcIdx \notin invoked
              /\ invoked' = invoked \cup {srcIdx}
        /\ (pc # "notifying" /\ pc' = "notifying") =>
              /\ pc = "fetching"
              /\ invoked' = 1..NSources
              /\ mails' = <<>>
        /\ pc = "notifying" =>
              pc' \in {"notifying", "sleeping", "cooldown", "stopped"}
        /\ (pc # "sleeping" /\ pc' = "sleeping") =>
              /\ pc = "notifying"
              /\ cycle' = cycle
              /\ Len(mails') = 1
        /\ pc = "sleeping" => pc' \in {"sleeping", "fetching", "stopped"}
        /\ pc = "idle" => pc' \in {"idle", "fetching"} ]_vars

\* The second cycle has begun after the sleep that followed the first.
C11_Witness ==
    /\ pc = "fetching"
    /\ lastEvent = "wake"
    /\ cycle = 2

\* C12: in the summary of a cycle the total before is the number of ledger
\* entries before the cycle and the total after is the number of ledger
\* entries after it.
C12_TotalsMatchLedger ==
    (pc = "sleeping" /\ mails # <<>> /\ mails[1].kind = "summary") =>
        /\ stats = entriesBefore
        /\ new_total = Len(entries)

\* C13: apply_to_job is called only for records with a contact address, and
\* for a URL that was returned with one it is called in the cycle that
\* returned it and in no other: over all cycles no URL is applied to twice.
\* Stated for the runs in which no ledger write failed.
C13_AppliedOnce ==
    EveryWriteSucceeded =>
        /\ \A i \in 1..Len(applied) :
              \E j \in 1..Len(emitted) :
                  /\ emitted[j].url = applied[i].url
                  /\ emitted[j].cycle = applied[i].cycle
        /\ \A i, j \in 1..Len(applied) :
              i # j => applied[i].url # applied[j].url

IsPrefix(a, b) == Len(a) <= Len(b) /\ SubSeq(b, 1, Len(a)) = a

\* C14: the ledger is append-only.  Whatever the bot does, the file keeps
\* what it held and only grows at its end, the entries appended before are
\* still there in order, and a URL the ledger reported as applied is still
\* reported as applied.
C14_AppendOnly ==
    [][ /\ IsPrefix(file, file')
        /\ IsPrefix(entries, entries')
        /\ file' # file =>
              \A u \in ProbeUrls :
                  job_already_applied(file, u) => job_already_applied(file', u) ]_vars

\* A second entry has been appended to a ledger that held one.
C14_Witness ==
    /\ Len(entries) >= 2
    /\ get_stats(file) >= 2

\* C15: a status or summary mail that cannot be sent, or an application that
\* fails, changes nothing in the ledger and does not fail the cycle:
\* run_job_search returns and the loop goes to its sleep, not to the cooldown.
C15_MailFailureHarmless ==
    [][ ( /\ mails' # mails
          /\ mails' # <<>>
          /\ \/ ~mails'[Len(mails')].ok
             \/ /\ jobs' # <<>>
                /\ new_total' - stats' < Len(WithEmail(jobs')) ) =>
            /\ file' = file
            /\ entries' = entries
            /\ cycle' = cycle
            /\ pc' = "sleeping" ]_vars

\* A cycle with new jobs has reached its sleep although an application and
\* the summary mail both failed.
C15_Witness ==
    /\ pc = "sleeping"
    /\ jobs # <<>>
    /\ mails # <<>>
    /\ ~mails[1].ok
    /\ new_total - stats < Len(WithEmail(jobs))

\* C16: when mark_as_applied fails to write, the adapter does not raise and
\* goes on with the remaining candidates, the record is still returned and
\* the file keeps what it held.  A call in which every write failed leaves
\* the file as it was, so none of the URLs it returned is reported as
\* applied and the listing can be returned again in a later cycle.
C16_WriteFailureSwallowed ==
    [][ ( /\ pc = "fetching"
          /\ invoked' # invoked
          /\ Len(entries') - Len(entries) < Len(accepted'[srcIdx]) ) =>
            /\ IsPrefix(file, file')
            /\ srcIdx \in failed' =>
                  \E i \in 1..Len(payloads'[srcIdx]) :
                      ~CandWellFormed(srcIdx, payloads'[srcIdx][i])
            /\ srcIdx \notin failed' =>
                  /\ returned'[srcIdx] = accepted'[srcIdx]
                  /\ Len(returned'[srcIdx]) > Len(entries') - Len(entries)
                  /\ \A i \in 1..Len(payloads'[srcIdx]) :
                        LET c == payloads'[srcIdx][i] IN
                        ( /\ CandWellFormed(srcIdx, c)
                          /\ CandMatches(srcIdx, c)
                          /\ CandUrl(srcIdx, c) # <<>> ) =>
                            \/ CandUrl(srcIdx, c) \in Urls(returned'[srcIdx])
                            \/ job_already_applied(file', CandUrl(srcIdx, c))
            /\ entries' = entries =>
                  /\ file' = file
                  /\ \A u \in Urls(accepted'[srcIdx]) :
                        ~job_already_applied(file', u) ]_vars

\* A URL that csv.writer does not quote was returned in the first cycle and,
\* its row never written, again in the second.
C16_Witness ==
    \E i, j \in 1..Len(emitted) :
        /\ emitted[i].cycle < emitted[j].cycle
        /\ emitted[i].url = emitted[j].url
        /\ \A k \in 1..Len(emitted[i].url) : emitted[i].url[k] # QUOTE
        /\ Count(entries, emitted[i].url) < 2

\* C17: while the ledger file is missing the ledger is an empty one, with
\* no URL reported as applied and a count of 0, and the first append to it
\* creates the file so that the appended URL is reported as applied.
C17_MissingLedgerIsEmpty ==
    [][ /\ file = NoFile =>
              /\ get_stats(file) = 0
              /\ \A u \in ProbeUrls : ~job_already_applied(file, u)
        /\ (file = NoFile /\ entries' # <<>>) =>
              /\ file' # NoFile
              /\ job_already_applied(file', entries'[1].url) ]_vars

\* C18: every record an adapter returns, and so every record that reaches
\* the aggregation and the notification, has a non-empty URL, and no row
\* with an empty URL is appended to the ledger.
C18_NoEmptyUrl ==
    /\ \A s \in 1..NSources :
          /\ <<>> \notin Urls(returned[s])
          /\ <<>> \notin Urls(accepted[s])
    /\ <<>> \notin Urls(all_jobs)
    /\ <<>> \notin Urls(jobs)
    /\ <<>> \notin Urls(emitted)
    /\ <<>> \notin Urls(applied)
    /\ <<>> \notin Urls(entries)

\* An adapter that did not fail was handed a well-formed listing that
\* matches a keyword and has no URL, next to one that it returned.
C18_Witness ==
    \E s \in invoked \ failed :
        /\ returned[s] # <<>>
        /\ \E i \in 1..Len(payloads[s]) :
              LET c == payloads[s][i] IN
              /\ CandWellFormed(s, c)
              /\ CandMatches(s, c)
              /\ CandUrl(s, c) = <<>>

\* C19: when fetch_all_jobs has returned, the ledger reports the URL of
\* every record of its output as applied, before any notification or
\* application is attempted, so that the listing is not returned again
\* whatever becomes of its application.  Stated for the runs in which no
\* ledger write failed.
C19_SeenBeforeNotify ==
    (pc = "notifying" /\ EveryWriteSucceeded) =>
        \A i \in 1..Len(jobs) : job_already_applied(file, jobs[i].url)

\* C20: when fetch_all_jobs has returned, every URL appended to the ledger
\* since the cycle began is the URL of a record of its output, also when an
\* adapter failed part-way through its payload.
C20_AppendedIsReported ==
    pc = "notifying" =>
        \A i \in (entriesBefore + 1)..Len(entries) :
            entries[i].url \in Urls(jobs)

====
